---- MODULE Spec2Model ----
(***************************************************************************)
(* The sqlite3 migration driver of database/sqlite/sqlite.go as a state    *)
(* machine: a driver instance (the Sqlite struct) talking to one database  *)
(* file through one engine session, and a second instance, the peer, on    *)
(* the same file through a session of its own.  Every action is one call   *)
(* of a driver method, run to completion.  The engine is modelled by what  *)
(* each statement the driver issues does to the session and to the file:   *)
(* autocommit, BEGIN/COMMIT, the savepoint stack, statement atomicity, the *)
(* file lock a session takes and what it keeps the other session from.     *)
(* The calls of one instance are sequential, so database/sql serves them   *)
(* all from the one idle connection of its pool: one session.  The         *)
(* environment can make a statement whose error the driver checks fail     *)
(* (PRAGMA, BEGIN, COMMIT, SAVEPOINT, DELETE, INSERT, CREATE TABLE);       *)
(* RELEASE and ROLLBACK TO fail only when the savepoint does not exist.    *)
(***************************************************************************)
EXTENDS Integers, Sequences, FiniteSets

VARIABLES
    s,       \* the Sqlite struct: db handle, migrationsTable, locked, txid
    engine,  \* the database: committed file contents and the session's state
    last,    \* the last driver call: method, arguments, result, statements
    hist,    \* history of the current Lock bracket (not program state)
    peer     \* the second instance: its struct, session, last call, lock

vars == <<s, engine, last, hist, peer>>

----------------------------------------------------------------------------
(* Bounds of the model *)

\* the savepoint counter is capped: transactionally is not called beyond it
MaxTxid == 2
\* versions passed to SetVersion range over NilVersion .. MaxVersion
MaxVersion == 1

----------------------------------------------------------------------------
(* Values *)

DefaultMigrationsTable == "schema_migrations"

\* the reserved token of the driver's own statements
Placeholder == "${MIGRATIONS_TABLE}"

\* database.NilVersion
NilVersion == -1

Versions == NilVersion .. MaxVersion

\* tables a migration script may create
UserTables == {"t"}

\* one SQL statement: verb, the name it is about, a number, a flag
Stmt(verb, target, n, dirty) ==
    [verb |-> verb, target |-> target, n |-> n, dirty |-> dirty]

\* the statements of migration scripts: a valid CREATE TABLE of a user
\* table, one that names the reserved token, and one the engine rejects
ScriptStmts ==
    {Stmt("CREATE TABLE", t, 0, FALSE) : t \in UserTables \cup {Placeholder}}
        \cup {Stmt("SYNTAX ERROR", "", 0, FALSE)}

\* the texts a caller can pass to Run: one statement, or two
Scripts ==
    {<<a>> : a \in ScriptStmts} \cup {<<a, b>> : a, b \in ScriptStmts}

\* error values: nil, database.ErrLocked, *database.Error{Query: ...}
Nil == [kind |-> "nil", query |-> <<>>]
ErrLocked == [kind |-> "ErrLocked", query |-> <<>>]
dberror(query) == [kind |-> "Error", query |-> query]

\* contents of a database: the tables that exist and the rows of the
\* bookkeeping table
EmptyDB == [tables |-> {}, rows |-> {}]

----------------------------------------------------------------------------
(* The engine: one statement on one session *)

\* index of the topmost savepoint called name, 0 when there is none
SpIndex(sp, name) ==
    LET hits == {i \in 1..Len(sp) : sp[i].name = name}
    IN  IF hits = {} THEN 0 ELSE CHOOSE i \in hits : \A j \in hits : j <= i

\* the file lock a session is left with when its transaction ends: in
\* exclusive locking mode a lock once taken is kept
AfterCommit(e) ==
    IF e.excl /\ e.lock # "none" THEN "exclusive" ELSE "none"

\* a write of the session: outside a transaction it is committed at once;
\* inside one it takes the file's write lock and stays in the session
Write(e, w) ==
    IF e.tx = "none"
    THEN [e EXCEPT !.working = w, !.durable = w,
                   !.lock = IF e.excl THEN "exclusive" ELSE "none"]
    ELSE [e EXCEPT !.working = w,
                   !.lock = IF e.lock = "exclusive" THEN "exclusive"
                            ELSE "reserved"]

Ok(e) == [e |-> e, ok |-> TRUE]
Rejected(e) == [e |-> e, ok |-> FALSE]

\* what statement q does to session e; a rejected statement changes
\* nothing.  e.lock is the file lock this session holds, e.peer the one
\* the other session holds: a write or a BEGIN EXCLUSIVE is refused (the
\* file is busy) while the other session holds a lock.
EngineStep(e, q) ==
    CASE q.verb = "PRAGMA" ->
            Ok([e EXCEPT !.excl = TRUE])
      [] q.verb = "BEGIN" ->
            IF e.tx # "none" \/ e.peer # "none" THEN Rejected(e)
            ELSE Ok([e EXCEPT !.tx = "begin", !.lock = "exclusive"])
      [] q.verb = "COMMIT" ->
            IF e.tx = "none" THEN Rejected(e)
            ELSE Ok([e EXCEPT !.durable = e.working, !.tx = "none",
                              !.sp = <<>>, !.lock = AfterCommit(e)])
      [] q.verb = "SAVEPOINT" ->
            Ok([e EXCEPT !.tx = IF e.tx = "none" THEN "savepoint" ELSE e.tx,
                         !.sp = Append(e.sp, [name |-> <<q.target, q.n>>,
                                              snap |-> e.working])])
      [] q.verb = "RELEASE" ->
            LET i == SpIndex(e.sp, <<q.target, q.n>>)
            IN  IF i = 0 THEN Rejected(e)
                ELSE IF i = 1 /\ e.tx = "savepoint"
                THEN Ok([e EXCEPT !.durable = e.working, !.tx = "none",
                                  !.sp = <<>>, !.lock = AfterCommit(e)])
                ELSE Ok([e EXCEPT !.sp = SubSeq(e.sp, 1, i - 1)])
      [] q.verb = "ROLLBACK TO" ->
            LET i == SpIndex(e.sp, <<q.target, q.n>>)
            IN  IF i = 0 THEN Rejected(e)
                ELSE Ok([e EXCEPT !.working = e.sp[i].snap,
                                  !.sp = SubSeq(e.sp, 1, i)])
      [] q.verb = "CREATE TABLE" ->
            IF \/ e.peer # "none"
               \/ q.target = Placeholder
               \/ q.target \in e.working.tables
            THEN Rejected(e)
            ELSE Ok(Write(e, [e.working EXCEPT !.tables = @ \cup {q.target}]))
      [] q.verb = "DELETE FROM" ->
            IF e.peer # "none" \/ q.target \notin e.working.tables
            THEN Rejected(e)
            ELSE Ok(Write(e, [e.working EXCEPT !.rows = {}]))
      [] q.verb = "INSERT INTO" ->
            IF \/ e.peer # "none"
               \/ q.target \notin e.working.tables
               \/ \E r \in e.working.rows : r.version = q.n
            THEN Rejected(e)
            ELSE Ok(Write(e, [e.working EXCEPT
                     !.rows = @ \cup {[version |-> q.n, dirty |-> q.dirty]}]))
      [] OTHER -> Rejected(e)

\* db.Exec of a text: its statements run in order and the run stops at
\* the first one rejected, those before it having taken effect.  A
\* statement whose verb is in fault is rejected by the environment (full
\* disk, I/O error).
RECURSIVE EngineExec(_, _, _)
EngineExec(e, text, fault) ==
    IF text = <<>> THEN Ok(e)
    ELSE LET q == Head(text)
             r == IF q.verb \in fault THEN Rejected(e) ELSE EngineStep(e, q)
         IN  IF r.ok THEN EngineExec(r.e, Tail(text), fault) ELSE r

\* the end of a session (Close, or the process ending): what was not
\* committed is gone
EndSession(e) ==
    [e EXCEPT !.working = e.durable, !.tx = "none", !.sp = <<>>,
              !.excl = FALSE, !.lock = "none"]

----------------------------------------------------------------------------
(* The driver.  A call runs on a context c: the struct, the session, the   *)
(* texts handed to the engine so far, whether the engine accepted each,    *)
(* the session as each left it, and the error of the last step.            *)

Context(st, e) ==
    [s |-> st, e |-> e, issued |-> <<>>, acks |-> <<>>, trail |-> <<>>,
     err |-> Nil]

\* strings.Replace(op, "${MIGRATIONS_TABLE}", s.migrationsTable, -1)
Replace(op, table) ==
    [i \in 1..Len(op) |->
        IF op[i].target = Placeholder THEN [op[i] EXCEPT !.target = table]
        ELSE op[i]]

\* Sqlite.exec: substitute the table name, hand the text to the engine
exec(c, op, fault) ==
    LET text == Replace(op, c.s.migrationsTable)
        r == EngineExec(c.e, text, fault)
    IN  [c EXCEPT !.e = r.e,
                  !.issued = Append(@, text),
                  !.acks = Append(@, r.ok),
                  !.trail = Append(@, r.e),
                  !.err = IF r.ok THEN Nil ELSE dberror(text)]

\* ensureVersionTable as it would be without the existence check
ensureVersionTableNoCheck(c, fault) ==
    exec(c, <<Stmt("CREATE TABLE", Placeholder, 0, FALSE)>>, fault)

\* Sqlite.ensureVersionTable
ensureVersionTable(c, fault) ==
    IF c.s.migrationsTable \in c.e.working.tables THEN [c EXCEPT !.err = Nil]
    ELSE exec(c, <<Stmt("CREATE TABLE", Placeholder, 0, FALSE)>>, fault)

\* Sqlite.Open: a new struct on a new session, then the bootstrap
Open(e, migTbl, fault) ==
    ensureVersionTable(
        Context([db |-> "conn", migrationsTable |-> migTbl,
                 locked |-> FALSE, txid |-> 0], e),
        fault)

\* Lock as it would be without the check of the locked flag
LockNoGuard(c, fault) ==
    LET c1 == exec([c EXCEPT !.s.locked = TRUE],
                   <<Stmt("PRAGMA", "locking_mode = EXCLUSIVE", 0, FALSE)>>,
                   fault)
    IN  IF c1.err # Nil THEN c1
        ELSE exec(c1, <<Stmt("BEGIN", "EXCLUSIVE", 0, FALSE)>>, fault)

\* Lock as it would be without the exclusive transaction
LockNoBegin(c, fault) ==
    IF c.s.locked THEN [c EXCEPT !.err = ErrLocked]
    ELSE exec([c EXCEPT !.s.locked = TRUE],
              <<Stmt("PRAGMA", "locking_mode = EXCLUSIVE", 0, FALSE)>>, fault)

\* Sqlite.Lock
Lock(c, fault) ==
    IF c.s.locked THEN [c EXCEPT !.err = ErrLocked]
    ELSE LET c1 == exec([c EXCEPT !.s.locked = TRUE],
                        <<Stmt("PRAGMA", "locking_mode = EXCLUSIVE", 0, FALSE)>>,
                        fault)
         IN  IF c1.err # Nil THEN c1
             ELSE exec(c1, <<Stmt("BEGIN", "EXCLUSIVE", 0, FALSE)>>, fault)

\* Unlock as it would be without the COMMIT
UnlockNoCommit(c, fault) == [c EXCEPT !.err = Nil]

\* Sqlite.Unlock
Unlock(c, fault) ==
    IF ~c.s.locked THEN [c EXCEPT !.err = Nil]
    ELSE exec(c, <<Stmt("COMMIT", "", 0, FALSE)>>, fault)

\* Run as it would be resetting the version record when the script fails
RunRepairs(c, migration) ==
    LET c1 == exec(c, migration, {})
    IN  IF c1.err = Nil THEN c1
        ELSE [exec(c1, <<Stmt("DELETE FROM", Placeholder, 0, FALSE)>>, {})
                 EXCEPT !.err = c1.err]

\* Sqlite.Run
Run(c, migration) == exec(c, migration, {})

\* the function literal as it would be without the DELETE
SetVersionThunkNoDelete(c, version, dirty, fault) ==
    IF version >= 0
    THEN exec(c, <<Stmt("INSERT INTO", Placeholder, version, dirty)>>, fault)
    ELSE [c EXCEPT !.err = Nil]

\* the function literal as it would be inserting for version > 0 only
SetVersionThunkPositive(c, version, dirty, fault) ==
    LET c1 == exec(c, <<Stmt("DELETE FROM", Placeholder, 0, FALSE)>>, fault)
    IN  IF c1.err # Nil THEN c1
        ELSE IF version > 0
        THEN exec(c1, <<Stmt("INSERT INTO", Placeholder, version, dirty)>>,
                  fault)
        ELSE c1

\* the function literal SetVersion passes to transactionally, called on
\* the values it closes over
SetVersionThunk(c, version, dirty, fault) ==
    LET c1 == exec(c, <<Stmt("DELETE FROM", Placeholder, 0, FALSE)>>, fault)
    IN  IF c1.err # Nil THEN c1
        ELSE IF version >= 0
        THEN exec(c1, <<Stmt("INSERT INTO", Placeholder, version, dirty)>>,
                  fault)
        ELSE c1

\* transactionally as it would be without the deferred rollback
transactionallyNoRollback(c, thunk, fault) ==
    LET c0 == [c EXCEPT !.s.txid = @ + 1]
        txid == c0.s.txid
        c1 == exec(c0, <<Stmt("SAVEPOINT", "txn_", txid, FALSE)>>, fault)
        c2 == IF c1.err # Nil THEN c1
              ELSE SetVersionThunk(c1, thunk.version, thunk.dirty, fault)
    IN  IF c2.err = Nil
        THEN [exec(c2, <<Stmt("RELEASE", "txn_", txid, FALSE)>>, fault)
                 EXCEPT !.err = Nil]
        ELSE c2

\* transactionally as it would be returning what the rollback returned
transactionallyRollbackError(c, thunk, fault) ==
    LET c0 == [c EXCEPT !.s.txid = @ + 1]
        txid == c0.s.txid
        c1 == exec(c0, <<Stmt("SAVEPOINT", "txn_", txid, FALSE)>>, fault)
        c2 == IF c1.err # Nil THEN c1
              ELSE SetVersionThunk(c1, thunk.version, thunk.dirty, fault)
    IN  IF c2.err = Nil
        THEN [exec(c2, <<Stmt("RELEASE", "txn_", txid, FALSE)>>, fault)
                 EXCEPT !.err = Nil]
        ELSE exec(c2, <<Stmt("ROLLBACK TO", "txn_", txid, FALSE)>>, fault)

\* transactionally as it would be without the increment of the counter
transactionallyNoIncrement(c, thunk, fault) ==
    LET txid == c.s.txid
        c1 == exec(c, <<Stmt("SAVEPOINT", "txn_", txid, FALSE)>>, fault)
        c2 == IF c1.err # Nil THEN c1
              ELSE SetVersionThunk(c1, thunk.version, thunk.dirty, fault)
    IN  IF c2.err = Nil
        THEN [exec(c2, <<Stmt("RELEASE", "txn_", txid, FALSE)>>, fault)
                 EXCEPT !.err = Nil]
        ELSE [exec(c2, <<Stmt("ROLLBACK TO", "txn_", txid, FALSE)>>, fault)
                 EXCEPT !.err = c2.err]

\* transactionally as it would be calling the function although the
\* SAVEPOINT failed
transactionallyIgnoreSavepointError(c, thunk, fault) ==
    LET c0 == [c EXCEPT !.s.txid = @ + 1]
        txid == c0.s.txid
        c1 == exec(c0, <<Stmt("SAVEPOINT", "txn_", txid, FALSE)>>, fault)
        c2 == SetVersionThunk(c1, thunk.version, thunk.dirty, fault)
    IN  IF c1.err = Nil /\ c2.err = Nil
        THEN [exec(c2, <<Stmt("RELEASE", "txn_", txid, FALSE)>>, fault)
                 EXCEPT !.err = Nil]
        ELSE [exec(c2, <<Stmt("ROLLBACK TO", "txn_", txid, FALSE)>>, fault)
                 EXCEPT !.err = IF c1.err # Nil THEN c1.err ELSE c2.err]

\* transactionally as it would be calling the function without a savepoint
transactionallyNoSavepoint(c, thunk, fault) ==
    SetVersionThunk([c EXCEPT !.s.txid = @ + 1], thunk.version, thunk.dirty,
                    fault)

\* Sqlite.transactionally; thunk is the closure: the version and dirty
\* flag SetVersion's function literal captured
transactionally(c, thunk, fault) ==
    LET c0 == [c EXCEPT !.s.txid = @ + 1]
        txid == c0.s.txid
        c1 == exec(c0, <<Stmt("SAVEPOINT", "txn_", txid, FALSE)>>, fault)
        c2 == IF c1.err # Nil THEN c1
              ELSE SetVersionThunk(c1, thunk.version, thunk.dirty, fault)
    IN  IF c2.err = Nil
        THEN [exec(c2, <<Stmt("RELEASE", "txn_", txid, FALSE)>>, fault)
                 EXCEPT !.err = Nil]
        ELSE [exec(c2, <<Stmt("ROLLBACK TO", "txn_", txid, FALSE)>>, fault)
                 EXCEPT !.err = c2.err]

\* Sqlite.SetVersion
SetVersion(c, version, dirty, fault) ==
    transactionally(c, [version |-> version, dirty |-> dirty], fault)

\* Sqlite.Version: the results the LIMIT 1 query can give; the query
\* fails while the other session holds the file exclusively
Version(c) ==
    IF \/ c.e.peer = "exclusive"
       \/ c.s.migrationsTable \notin c.e.working.tables
    THEN {[version |-> 0, dirty |-> FALSE, err |-> dberror(<<>>)]}
    ELSE IF c.e.working.rows = {}
    THEN {[version |-> NilVersion, dirty |-> FALSE, err |-> Nil]}
    ELSE {[version |-> r.version, dirty |-> r.dirty, err |-> Nil] :
             r \in c.e.working.rows}

----------------------------------------------------------------------------
(* The calls an orchestrator makes, each one step *)

\* the statements the environment can make fail, per method
OpenFaults == {{}, {"CREATE TABLE"}}
LockFaults == {{}, {"PRAGMA"}, {"BEGIN"}}
UnlockFaults == {{}, {"COMMIT"}}
SetVersionFaults == {{}, {"SAVEPOINT"}, {"DELETE FROM"}, {"INSERT INTO"}}
\* the same with the deferred ROLLBACK TO failing after the function failed
RollbackFaults ==
    {{"DELETE FROM", "ROLLBACK TO"}, {"INSERT INTO", "ROLLBACK TO"}}

\* the registered zero value &Sqlite{}
ZeroSqlite == [db |-> "nil", migrationsTable |-> "", locked |-> FALSE,
               txid |-> 0]

\* a record of a call: method, arguments, error, values returned, texts
\* handed to the engine and whether the engine accepted each
Call(op, version, dirty, script, err, rversion, rdirty, issued, acks) ==
    [op |-> op, version |-> version, dirty |-> dirty, script |-> script,
     err |-> err, rversion |-> rversion, rdirty |-> rdirty,
     issued |-> issued, acks |-> acks]

NoCall == Call("init", 0, FALSE, <<>>, Nil, 0, FALSE, <<>>, <<>>)

NoSet == [set |-> FALSE, version |-> 0, dirty |-> FALSE]

NoHist == [held |-> FALSE, pre |-> EmptyDB, lastSet |-> NoSet, ran |-> {},
           after |-> "none"]

\* a session not yet used, on a file not yet written
NoSession ==
    [durable |-> EmptyDB, working |-> EmptyDB, tx |-> "none", sp |-> <<>>,
     excl |-> FALSE, lock |-> "none", peer |-> "none"]

\* no read of the peer ran while a call of the first instance was going on
NoSeen == [at |-> 0, rows |-> {}, version |-> 0, dirty |-> FALSE,
           returned |-> [version |-> 0, dirty |-> FALSE, err |-> Nil]]

\* the second instance before its Open.  held and seen are history: held
\* tells that its Lock returned nil and no Unlock or Close followed, seen
\* after which statement of a SetVersion of the first instance its
\* Version ran and the rows its session could read then
NoPeer == [s |-> ZeroSqlite, engine |-> NoSession, last |-> NoCall,
           held |-> FALSE, seen |-> NoSeen]

\* session other once a call of the other instance has left the file and
\* its lock as in e: a session holding no lock reads the file as it is
Sync(other, e) ==
    IF other.lock = "none"
    THEN [other EXCEPT
            !.durable = e.durable, !.peer = e.lock, !.working = e.durable,
            !.sp = [i \in 1..Len(other.sp) |->
                       [other.sp[i] EXCEPT !.snap = e.durable]]]
    ELSE [other EXCEPT !.durable = e.durable, !.peer = e.lock]

Init ==
    /\ s = ZeroSqlite
    /\ engine = NoSession
    /\ last = NoCall
    /\ hist = NoHist
    /\ peer = NoPeer

\* the peer sees what a call of the first instance did to the file
PeerSync ==
    peer' = [peer EXCEPT !.engine = Sync(@, engine'), !.seen = NoSeen]

----------------------------------------------------------------------------
(* What a call of the first instance, ended in context c, leaves *)

OpenStep(c) ==
    /\ s' = IF c.err = Nil THEN c.s ELSE s
    /\ engine' = IF c.err = Nil THEN c.e ELSE EndSession(c.e)
    /\ last' = Call("Open", 0, FALSE, <<>>, c.err, 0, FALSE, c.issued, c.acks)
    /\ UNCHANGED hist

CloseStep ==
    /\ s' = [s EXCEPT !.db = "closed"]
    /\ engine' = EndSession(engine)
    /\ last' = Call("Close", 0, FALSE, <<>>, Nil, 0, FALSE, <<>>, <<>>)
    /\ hist' = IF hist.held
               THEN [hist EXCEPT !.held = FALSE, !.after = "close"]
               ELSE hist

LockStep(c) ==
    /\ s' = c.s
    /\ engine' = c.e
    /\ last' = Call("Lock", 0, FALSE, <<>>, c.err, 0, FALSE, c.issued, c.acks)
    /\ hist' = IF c.err = Nil
               THEN [held |-> TRUE, pre |-> engine.durable,
                     lastSet |-> NoSet, ran |-> {}, after |-> "none"]
               ELSE hist

UnlockStep(c) ==
    /\ s' = c.s
    /\ engine' = c.e
    /\ last' = Call("Unlock", 0, FALSE, <<>>, c.err, 0, FALSE, c.issued,
                    c.acks)
    /\ hist' = IF hist.held
               THEN IF c.err = Nil
                    THEN [hist EXCEPT !.held = FALSE, !.after = "commit"]
                    ELSE hist
               ELSE NoHist

RunStep(c, migration) ==
    /\ s' = c.s
    /\ engine' = c.e
    /\ last' = Call("Run", 0, FALSE, migration, c.err, 0, FALSE, c.issued,
                    c.acks)
    /\ hist' = IF hist.held
               THEN IF c.err = Nil
                    THEN [hist EXCEPT !.ran = @ \cup
                            (c.e.working.tables \ engine.working.tables)]
                    ELSE hist
               ELSE NoHist

SetVersionStep(c, version, dirty) ==
    /\ s' = c.s
    /\ engine' = c.e
    /\ last' = Call("SetVersion", version, dirty, <<>>, c.err, 0, FALSE,
                    c.issued, c.acks)
    /\ hist' = IF hist.held
               THEN IF c.err = Nil
                    THEN [hist EXCEPT !.lastSet =
                            [set |-> TRUE, version |-> version,
                             dirty |-> dirty]]
                    ELSE hist
               ELSE NoHist

VersionStep(r) ==
    /\ last' = Call("Version", 0, FALSE, <<>>, r.err, r.version, r.dirty,
                    <<>>, <<>>)
    /\ UNCHANGED <<s, engine, hist>>

----------------------------------------------------------------------------
(* One instance: the calls an orchestrator makes, each one step *)

CallOpen ==
    /\ s.db # "conn"
    /\ \E fault \in OpenFaults :
         OpenStep(Open(engine, DefaultMigrationsTable, fault))
    /\ UNCHANGED peer

\* Sqlite.Close: the handle is closed and with it the session
CallClose ==
    /\ s.db = "conn"
    /\ CloseStep
    /\ UNCHANGED peer

\* the process ends without Close or Unlock
Crash ==
    /\ s.db = "conn"
    /\ s' = ZeroSqlite
    /\ engine' = EndSession(engine)
    /\ last' = Call("crash", 0, FALSE, <<>>, Nil, 0, FALSE, <<>>, <<>>)
    /\ hist' = IF hist.held
               THEN [hist EXCEPT !.held = FALSE, !.after = "crash"]
               ELSE hist
    /\ UNCHANGED peer

CallLock ==
    /\ s.db = "conn"
    /\ \E fault \in LockFaults : LockStep(Lock(Context(s, engine), fault))
    /\ UNCHANGED peer

CallUnlock ==
    /\ s.db = "conn"
    /\ \E fault \in UnlockFaults :
         UnlockStep(Unlock(Context(s, engine), fault))
    /\ UNCHANGED peer

CallRun ==
    /\ s.db = "conn"
    /\ \E migration \in Scripts :
         RunStep(Run(Context(s, engine), migration), migration)
    /\ UNCHANGED peer

CallSetVersion ==
    /\ s.db = "conn"
    /\ s.txid < MaxTxid
    /\ \E version \in Versions, dirty \in BOOLEAN,
          fault \in SetVersionFaults :
         SetVersionStep(SetVersion(Context(s, engine), version, dirty, fault),
                        version, dirty)
    /\ UNCHANGED peer

CallVersion ==
    /\ s.db = "conn"
    /\ \E r \in Version(Context(s, engine)) : VersionStep(r)
    /\ UNCHANGED peer

Next ==
    \/ CallOpen
    \/ CallClose
    \/ Crash
    \/ CallLock
    \/ CallUnlock
    \/ CallRun
    \/ CallSetVersion
    \/ CallVersion

Spec == Init /\ [][Next]_vars

----------------------------------------------------------------------------
(* One instance, where the environment can also make the deferred rollback *)
(* of transactionally fail                                                 *)

CallSetVersionRb ==
    /\ s.db = "conn"
    /\ s.txid < MaxTxid
    /\ \E version \in Versions, dirty \in BOOLEAN,
          fault \in SetVersionFaults \cup RollbackFaults :
         SetVersionStep(SetVersion(Context(s, engine), version, dirty, fault),
                        version, dirty)
    /\ UNCHANGED peer

NextRb ==
    \/ CallOpen
    \/ CallClose
    \/ Crash
    \/ CallLock
    \/ CallUnlock
    \/ CallRun
    \/ CallSetVersionRb
    \/ CallVersion

SpecRollbackFaults == Init /\ [][NextRb]_vars

----------------------------------------------------------------------------
(* Two instances on the same file, each with its own session.  A call of  *)
(* one instance is one step, except that a Version of the peer can run    *)
(* between two statements of a SetVersion of the first instance.          *)

\* what a call of the first instance, ended in context c, leaves.  Of the
\* history only whether the instance holds the lock is kept, and the
\* record of the last call is not kept.
TwoStep(c, held) ==
    /\ s' = c.s
    /\ engine' = c.e
    /\ hist' = [NoHist EXCEPT !.held = held]
    /\ UNCHANGED last

\* what a call of the peer, ended in context c, leaves
PeerStep(c, held) ==
    /\ peer' = [peer EXCEPT !.s = c.s, !.engine = c.e, !.held = held,
                            !.seen = NoSeen]
    /\ engine' = Sync(engine, c.e)
    /\ UNCHANGED <<s, last, hist>>

TwoOpen ==
    /\ s.db # "conn"
    /\ \E c \in {Open(engine, DefaultMigrationsTable, {})} :
         IF c.err = Nil THEN TwoStep(c, FALSE)
         ELSE TwoStep([s |-> s, e |-> EndSession(c.e)], FALSE)
    /\ PeerSync

\* Close, after which the instance is dropped
TwoClose ==
    /\ s.db = "conn"
    /\ TwoStep([s |-> ZeroSqlite, e |-> EndSession(engine)], FALSE)
    /\ PeerSync

TwoLock ==
    /\ s.db = "conn"
    /\ \E c \in {Lock(Context(s, engine), {})} :
         TwoStep(c, IF c.err = Nil THEN TRUE ELSE hist.held)
    /\ PeerSync

TwoUnlock ==
    /\ s.db = "conn"
    /\ \E c \in {Unlock(Context(s, engine), {})} :
         TwoStep(c, IF c.err = Nil THEN FALSE ELSE hist.held)
    /\ PeerSync

TwoSetVersion ==
    /\ s.db = "conn"
    /\ s.txid + peer.s.txid < MaxTxid
    /\ \E version \in Versions, dirty \in BOOLEAN :
         \E c \in {SetVersion(Context(s, engine), version, dirty, {})} :
            TwoStep(c, hist.held)
    /\ PeerSync

\* SetVersion of the first instance with a Version of the peer running
\* right after its k-th statement; seen keeps the arguments of the
\* SetVersion, k, the rows the peer's session could read and what its
\* Version returned
TwoSetVersionObserved ==
    /\ s.db = "conn"
    /\ s.txid + peer.s.txid < MaxTxid
    /\ peer.s.db = "conn"
    /\ \E version \in Versions, dirty \in BOOLEAN :
         \E c \in {SetVersion(Context(s, engine), version, dirty, {})} :
            /\ TwoStep(c, hist.held)
            /\ \E k \in 1..Len(c.trail) :
                 \E view \in {Sync(peer.engine, c.trail[k])} :
                    \E r \in Version(Context(peer.s, view)) :
                       peer' = [peer EXCEPT
                          !.engine = Sync(@, c.e),
                          !.seen = [at |-> k, rows |-> view.working.rows,
                                    version |-> version, dirty |-> dirty,
                                    returned |-> r]]

PeerOpen ==
    /\ peer.s.db # "conn"
    /\ \E c \in {Open(peer.engine, DefaultMigrationsTable, {})} :
         IF c.err = Nil THEN PeerStep(c, FALSE)
         ELSE PeerStep([s |-> peer.s, e |-> EndSession(c.e)], FALSE)

PeerClose ==
    /\ peer.s.db = "conn"
    /\ PeerStep([s |-> ZeroSqlite, e |-> EndSession(peer.engine)], FALSE)

PeerLock ==
    /\ peer.s.db = "conn"
    /\ \E c \in {Lock(Context(peer.s, peer.engine), {})} :
         PeerStep(c, IF c.err = Nil THEN TRUE ELSE peer.held)

PeerUnlock ==
    /\ peer.s.db = "conn"
    /\ \E c \in {Unlock(Context(peer.s, peer.engine), {})} :
         PeerStep(c, IF c.err = Nil THEN FALSE ELSE peer.held)

PeerRun ==
    /\ peer.s.db = "conn"
    /\ \E t \in UserTables :
         \E c \in {Run(Context(peer.s, peer.engine),
                       <<Stmt("CREATE TABLE", t, 0, FALSE)>>)} :
            PeerStep(c, peer.held)

PeerSetVersion ==
    /\ peer.s.db = "conn"
    /\ s.txid + peer.s.txid < MaxTxid
    /\ \E c \in {SetVersion(Context(peer.s, peer.engine), 0, FALSE, {})} :
         PeerStep(c, peer.held)

NextTwo ==
    \/ TwoOpen
    \/ TwoClose
    \/ TwoLock
    \/ TwoUnlock
    \/ TwoSetVersion
    \/ TwoSetVersionObserved
    \/ PeerOpen
    \/ PeerClose
    \/ PeerLock
    \/ PeerUnlock
    \/ PeerRun
    \/ PeerSetVersion

SpecTwo == Init /\ [][NextTwo]_vars

----------------------------------------------------------------------------
(* Properties *)

\* what Version reports of a database holding contents db
Reported(db) ==
    IF db.rows = {} THEN {[version |-> NilVersion, dirty |-> FALSE]}
    ELSE db.rows

LastReturned == [version |-> last.rversion, dirty |-> last.rdirty]

\* C1: crash safety. When the process ends inside a Lock bracket (a Lock
\* succeeded, no Unlock succeeded since), the file holds exactly what was
\* committed before that Lock: after reopening, the session sees those
\* contents, with no table a script of the bracket created and no row a
\* SetVersion of the bracket wrote, and Version returns the record
\* committed before the Lock.
CrashSafety ==
    hist.after = "crash" =>
        /\ engine.durable = hist.pre
        /\ engine.working = hist.pre
        /\ last.op = "Version" =>
              last.err = Nil /\ LastReturned \in Reported(hist.pre)

\* a bracket that wrote a version and ran a script, crashed, and was read
\* again after reopening: neither write is there
CrashSafetyWitness ==
    /\ hist.after = "crash"
    /\ s.db = "conn"
    /\ last.op = "Version"
    /\ hist.lastSet.set /\ hist.lastSet.version >= 0
    /\ hist.lastSet.version # last.rversion
    /\ hist.ran # {}
    /\ hist.ran \cap engine.working.tables = {}

\* C2: durability at Unlock. Inside a Lock bracket nothing the bracket
\* wrote is in the file; once Unlock succeeds, the file holds the record of
\* the bracket's last successful SetVersion(v, d), v >= 0, and every table
\* a successful Run of the bracket created, and Version returns (v, d),
\* also after reopening.
DurableAtUnlock ==
    /\ hist.held => engine.durable = hist.pre
    /\ (hist.after = "commit" /\ hist.lastSet.set
            /\ hist.lastSet.version >= 0) =>
          /\ engine.durable.rows =
                {[version |-> hist.lastSet.version,
                  dirty |-> hist.lastSet.dirty]}
          /\ hist.ran \subseteq engine.durable.tables
          /\ (s.db = "conn" /\ last.op = "Version") =>
                /\ last.err = Nil
                /\ LastReturned = [version |-> hist.lastSet.version,
                                   dirty |-> hist.lastSet.dirty]

\* a bracket that wrote a new version and created a table, was committed
\* by Unlock, and is read back by a new driver instance
DurableAtUnlockWitness ==
    /\ hist.after = "commit"
    /\ hist.lastSet.set /\ hist.lastSet.version >= 0
    /\ hist.ran # {}
    /\ ~(hist.ran \subseteq hist.pre.tables)
    /\ hist.pre.rows # engine.durable.rows
    /\ s.db = "conn" /\ s.txid = 0 /\ ~s.locked
    /\ last.op = "Version"

\* C3: savepoint isolation of Run. A Run whose script is a valid CREATE
\* TABLE followed by a statement the engine rejects returns an error and
\* leaves the database, as the driver's session sees it, as it was before
\* the call.
RunSavepointIsolation ==
    [][(/\ last'.op = "Run"
        /\ Len(last'.script) = 2
        /\ last'.script[1].verb = "CREATE TABLE"
        /\ last'.script[1].target \in UserTables
        /\ last'.script[2].verb = "SYNTAX ERROR")
          => /\ last'.err # Nil
             /\ engine'.working = engine.working]_vars

\* C4: at most one row. In every reachable state the bookkeeping table
\* holds at most one row: in the session's view, in the file, and in every
\* state a savepoint can restore.
AtMostOneRow ==
    /\ Cardinality(engine.working.rows) <= 1
    /\ Cardinality(engine.durable.rows) <= 1
    /\ \A i \in 1..Len(engine.sp) : Cardinality(engine.sp[i].snap.rows) <= 1

\* a second SetVersion that failed at its INSERT, on a table holding the
\* row of the first
AtMostOneRowWitness ==
    /\ last.op = "SetVersion"
    /\ last.err.kind = "Error"
    /\ last.err.query[1].verb = "INSERT INTO"
    /\ s.txid >= 2
    /\ Cardinality(engine.working.rows) = 1

RoundTrip ==
    /\ (last.op = "SetVersion" /\ last.err = Nil) =>
          IF last.version >= 0
          THEN Version(Context(s, engine)) =
                  {[version |-> last.version, dirty |-> last.dirty,
                    err |-> Nil]}
          ELSE /\ engine.working.rows = {}
               /\ Version(Context(s, engine)) =
                     {[version |-> NilVersion, dirty |-> FALSE, err |-> Nil]}
    /\ (s.db = "conn" /\ engine.working.rows = {}) =>
          Version(Context(s, engine)) =
             {[version |-> NilVersion, dirty |-> FALSE, err |-> Nil]}
    /\ (last.op = "Version" /\ engine.working.rows = {}) =>
          /\ last.err = Nil
          /\ LastReturned = [version |-> NilVersion, dirty |-> FALSE]

\* a successful SetVersion(0, true) on a table that held another row
RoundTripWitness ==
    /\ last.op = "SetVersion"
    /\ last.err = Nil
    /\ last.version = 0
    /\ last.dirty
    /\ s.txid >= 2
    /\ engine.working.rows = {[version |-> 0, dirty |-> TRUE]}

\* C7: lock exclusivity on one instance. A Lock on an instance that holds
\* the lock returns ErrLocked, hands nothing to the engine, and leaves the
\* struct and the session, the open exclusive transaction included, as
\* they were.
LockExclusive ==
    [][(last'.op = "Lock" /\ hist.held)
          => /\ last'.err = ErrLocked
             /\ last'.issued = <<>>
             /\ s' = s
             /\ engine' = engine]_vars

\* a Lock refused while the exclusive transaction of the first is open
LockExclusiveWitness ==
    /\ last.op = "Lock"
    /\ last.err = ErrLocked
    /\ hist.held
    /\ s.locked
    /\ engine.tx = "begin"

\* C8: lock state machine cycle. After an Unlock that succeeded on a held
\* lock the lock state is Unlocked (so that a later Lock is not refused).
UnlockReleasesLock ==
    (last.op = "Unlock" /\ last.err = Nil /\ hist.after = "commit")
        => ~s.locked

\* C9: a failed acquire leaves the lock unheld. After a Lock that failed
\* at one of its two statements the lock state is Unlocked.
FailedLockStaysUnlocked ==
    (last.op = "Lock" /\ last.err.kind = "Error") => ~s.locked

\* C10: Unlock without a held lock is a no-op. Where the driver holds no
\* lock (never locked, or released by a successful Unlock), Unlock returns
\* nil, hands nothing to the engine, and changes neither the struct nor
\* the database.
UnlockWithoutLockIsNoOp ==
    [][(/\ last'.op = "Unlock"
        /\ ~hist.held
        /\ (~s.locked \/ hist.after = "commit"))
          => /\ last'.err = Nil
             /\ last'.issued = <<>>
             /\ s' = s
             /\ engine' = engine]_vars

\* C12: bootstrap idempotence. An Open on a database that holds the
\* bookkeeping table succeeds, hands no CREATE TABLE (nothing at all) to
\* the engine and leaves the tables and the rows as they were; an Open that
\* did create the table leaves it with zero rows, so that Version returns
\* (-1, false, nil). There is one bookkeeping table either way.
BootstrapIdempotent ==
    /\ [][(last'.op = "Open"
              /\ DefaultMigrationsTable \in engine.durable.tables)
            => /\ last'.err = Nil
               /\ last'.issued = <<>>
               /\ engine'.durable = engine.durable
               /\ engine'.working = engine.durable]_vars
    /\ [][(last'.op = "Open" /\ last'.err = Nil /\ last'.issued # <<>>)
            => /\ engine'.working.rows = {}
               /\ DefaultMigrationsTable \in engine'.durable.tables
               /\ Version(Context(s, engine))' =
                     {[version |-> NilVersion, dirty |-> FALSE,
                       err |-> Nil]}]_vars

\* a second Open, on a database whose bookkeeping table holds a row
BootstrapIdempotentWitness ==
    /\ last.op = "Open"
    /\ last.err = Nil
    /\ last.issued = <<>>
    /\ s.db = "conn"
    /\ engine.working.rows # {}

\* C13: caller scripts are executed verbatim. The one text Run hands to
\* the engine is the script as the caller gave it, the reserved token
\* included.
RunScriptVerbatim ==
    last.op = "Run" => last.issued = <<last.script>>

\* C14: no auto-repair of a dirty state. A Run of a script that does not
\* name the bookkeeping table, failed or not, and every Lock, Unlock and
\* Version call leave the rows of the bookkeeping table, as the session
\* sees them, as they were: after SetVersion(v, true) the record stays
\* (v, true) and Version goes on returning it.
NoAutoRepair ==
    [][(\/ last'.op \in {"Lock", "Unlock", "Version"}
        \/ /\ last'.op = "Run"
           /\ \A i \in 1..Len(last'.script) :
                 last'.script[i].target # Placeholder)
          => /\ engine'.working.rows = engine.working.rows
             /\ Version(Context(s, engine))' = Version(Context(s, engine))]_vars

\* a Run that failed on a record left dirty
NoAutoRepairWitness ==
    /\ last.op = "Run"
    /\ last.err # Nil
    /\ \A i \in 1..Len(last.script) : last.script[i].target # Placeholder
    /\ \E r \in engine.working.rows : r.dirty
    /\ Version(Context(s, engine)) =
          {[version |-> r.version, dirty |-> TRUE, err |-> Nil] :
              r \in engine.working.rows}

\* C15: the savepoint lifecycle is closed per call. A SetVersion, failed
\* or not, leaves the session's savepoint nesting depth and its
\* open-transaction status as they were before the call.
SavepointClosedPerCall ==
    [][last'.op = "SetVersion"
          => /\ Len(engine'.sp) = Len(engine.sp)
             /\ engine'.tx = engine.tx]_vars

\* C16: the primary error is authoritative in transactionally. When the
\* SAVEPOINT or a statement of the function fails, the ROLLBACK TO of the
\* call's own savepoint is handed to the engine exactly once, as the last
\* statement of the call, and the call returns the error of the statement
\* that failed, also when the engine rejects the rollback. When nothing
\* fails, the call ends with the RELEASE of its savepoint, hands no
\* rollback to the engine and returns nil.
PrimaryErrorAuthoritative ==
    last.op = "SetVersion" =>
        LET n == Len(last.issued)
            rollbacks ==
                {i \in 1..n : last.issued[i][1].verb = "ROLLBACK TO"}
            failed ==
                {i \in 1..n :
                    /\ ~last.acks[i]
                    /\ last.issued[i][1].verb \in
                          {"SAVEPOINT", "DELETE FROM", "INSERT INTO"}}
        IN  IF failed # {}
            THEN /\ rollbacks = {n}
                 /\ last.issued[n] =
                       <<Stmt("ROLLBACK TO", "txn_", s.txid, FALSE)>>
                 /\ failed = {n - 1}
                 /\ last.err = dberror(last.issued[n - 1])
            ELSE /\ rollbacks = {}
                 /\ last.issued[n] =
                       <<Stmt("RELEASE", "txn_", s.txid, FALSE)>>
                 /\ last.err = Nil

\* a SetVersion whose INSERT failed and whose rollback the engine rejected
\* too, returning the error of the INSERT
PrimaryErrorAuthoritativeWitness ==
    /\ last.op = "SetVersion"
    /\ Len(last.issued) = 4
    /\ last.issued[3][1].verb = "INSERT INTO"
    /\ ~last.acks[3]
    /\ last.issued[4][1].verb = "ROLLBACK TO"
    /\ ~last.acks[4]
    /\ last.err = dberror(last.issued[3])

\* C18: savepoint names are unique per instance. Every SetVersion call,
\* successful or failed, raises the counter by exactly one and names its
\* savepoint after the new value; no other call of the same instance
\* changes the counter; so the name of a call is above every name still
\* on the session's savepoint stack, and the names on the stack are
\* pairwise different.
SavepointNamesUnique ==
    [][/\ last'.op = "SetVersion"
            => /\ s'.txid = s.txid + 1
               /\ last'.issued[1] =
                     <<Stmt("SAVEPOINT", "txn_", s'.txid, FALSE)>>
               /\ \A i \in 1..Len(engine.sp) : engine.sp[i].name[2] < s'.txid
       /\ last'.op \notin {"SetVersion", "Open", "crash"}
            => s'.txid = s.txid
       /\ \A i, j \in 1..Len(engine'.sp) :
             engine'.sp[i].name = engine'.sp[j].name => i = j]_vars

\* two failed SetVersion calls of one instance have left their savepoints
\* on the stack and the counter has reached its bound
SavepointNamesUniqueWitness ==
    /\ last.op = "SetVersion"
    /\ last.err # Nil
    /\ s.txid = MaxTxid
    /\ Len(engine.sp) >= 2

\* C19: when the engine rejects the SAVEPOINT, SetVersion returns that
\* error, the DELETE and the INSERT are not handed to the engine, the only
\* further statement is the ROLLBACK TO of the savepoint, and the session
\* and the file are as before the call.
SavepointFailureSkipsAction ==
    [][(last'.op = "SetVersion" /\ ~last'.acks[1])
          => /\ last'.issued =
                   << <<Stmt("SAVEPOINT", "txn_", s'.txid, FALSE)>>,
                      <<Stmt("ROLLBACK TO", "txn_", s'.txid, FALSE)>> >>
             /\ last'.err = dberror(last'.issued[1])
             /\ engine' = engine]_vars

\* a SetVersion on a table holding a row whose SAVEPOINT was rejected, and
\* whose rollback was rejected too
SavepointFailureSkipsActionWitness ==
    /\ last.op = "SetVersion"
    /\ last.version >= 0
    /\ ~last.acks[1]
    /\ ~last.acks[2]
    /\ last.err # Nil
    /\ engine.working.rows # {}

\* C11: mutual exclusion across instances. Two instances on the same
\* file never both hold the lock (Lock returned nil and no successful
\* Unlock or Close followed). The holder is inside the exclusive
\* transaction and holds the file exclusively; while it holds, a Lock of
\* the other instance does not succeed, and no step, so no SetVersion and
\* no Run of the other instance, changes the committed file.
CrossInstanceExclusion ==
    [][/\ ~(hist'.held /\ peer'.held)
       /\ hist'.held
            => engine'.tx = "begin" /\ engine'.lock = "exclusive"
       /\ peer'.held
            => peer'.engine.tx = "begin" /\ peer'.engine.lock = "exclusive"
       /\ hist.held => ~peer'.held
       /\ peer.held => ~hist'.held
       /\ (hist.held /\ hist'.held) \/ (peer.held /\ peer'.held)
            => engine'.durable = engine.durable]_vars

\* the first instance holds the lock; the peer has called Lock, which
\* failed after setting its flag, and SetVersion, whose DELETE the engine
\* refused and which left its savepoint behind
CrossInstanceExclusionWitness ==
    /\ hist.held
    /\ peer.s.db = "conn"
    /\ peer.s.locked
    /\ ~peer.held
    /\ peer.s.txid > 0
    /\ peer.engine.sp # <<>>
    /\ peer.engine.peer = "exclusive"

\* C17: atomic visibility of a version write. While SetVersion(v, d) with
\* v >= 0 runs on a file whose table holds one row, a Version of another
\* session that holds no lock of its own, run after any statement of the
\* call, is either refused because the writer holds the file exclusively,
\* or reads exactly the old row or exactly the new row and returns it:
\* never no row and never two.
AtomicVisibility ==
    [][(/\ peer'.seen.at > 0
        /\ peer'.seen.version >= 0
        /\ peer.engine.lock = "none"
        /\ Cardinality(engine.durable.rows) = 1)
          => LET new == {[version |-> peer'.seen.version,
                          dirty |-> peer'.seen.dirty]}
                 r == peer'.seen.returned
             IN  IF r.err # Nil THEN engine'.lock = "exclusive"
                 ELSE /\ peer'.seen.rows \in {engine.durable.rows, new}
                      /\ [version |-> r.version, dirty |-> r.dirty]
                            \in peer'.seen.rows]_vars

\* a Version that ran between the DELETE and the INSERT of a SetVersion
\* which then committed another row: it returned the old row
AtomicVisibilityWitness ==
    /\ peer.seen.at = 2
    /\ peer.seen.version >= 0
    /\ peer.seen.returned.err = Nil
    /\ engine.durable.rows =
          {[version |-> peer.seen.version, dirty |-> peer.seen.dirty]}
    /\ peer.seen.rows # engine.durable.rows
    /\ peer.seen.rows =
          {[version |-> peer.seen.returned.version,
            dirty |-> peer.seen.returned.dirty]}

====
